---- MODULE Spec2Model ----
(***************************************************************************)
(* Model of the RFM segmentation pipeline of src/dashboard.py:             *)
(* preprocess_data and perform_rfm_analysis (metrics, pd.qcut / pd.cut     *)
(* scoring, RFM_Score, segment_customer), driven by the module-level       *)
(* script that loads the order table and calls them.                       *)
(*                                                                         *)
(* The order table is a multiset of rows: perform_rfm_analysis only groups *)
(* and aggregates, so the row order of the DataFrame is never observed.    *)
(* A timestamp is a day number and a time of day in ticks; one day is      *)
(* MaxTod + 1 ticks.  Money is counted in whole units.  Quantile edges are *)
(* kept exact by scaling every value by q.                                 *)
(***************************************************************************)
EXTENDS Integers, Sequences, FiniteSets, Bags, TLC

VARIABLES pc, df, rfm_df, exc

vars == <<pc, df, rfm_df, exc>>

(* ---- bounds of the model ---- *)
MaxRows == 3
MaxCust == 2
MaxOrder == 2
MaxDay == 2
MaxTod == 1
MaxPrice == 1
MaxFreight == 1
MaxScoreCust == 3
MaxRecency == 2
MaxFrequency == 6
MaxMonetary == 2
MaxSegCust == 2
MaxRfmScore == 16

(* ---- generic helpers ---- *)
RECURSIVE SumOver(_, _)
SumOver(S, f) ==
    IF S = {} THEN 0
    ELSE LET x == CHOOSE y \in S : TRUE
         IN  f[x] + SumOver(S \ {x}, f)

Range(f) == {f[x] : x \in DOMAIN f}

EmptyTable == [c \in {} |-> 0]

(* ---- the order table read by pd.read_csv ---- *)
RawRows ==
    [customer_id : 1..MaxCust, order_id : 1..MaxOrder,
     order_purchase_timestamp : (0..MaxDay) \X (0..MaxTod),
     price : 0..MaxPrice, freight_value : 0..MaxFreight]

(* pd.to_datetime: the textual <<date, time>> pair becomes a Timestamp *)
to_datetime(s) == [day |-> s[1], tod |-> s[2]]

preprocess_row(r) ==
    [customer_id |-> r.customer_id, order_id |-> r.order_id,
     order_purchase_timestamp |-> to_datetime(r.order_purchase_timestamp),
     price |-> r.price, freight_value |-> r.freight_value,
     total_spent |-> r.price + r.freight_value]

raw_row(p) ==
    [customer_id |-> p.customer_id, order_id |-> p.order_id,
     order_purchase_timestamp |->
        <<p.order_purchase_timestamp.day, p.order_purchase_timestamp.tod>>,
     price |-> p.price, freight_value |-> p.freight_value]

preprocess_data(d) ==
    [p \in {preprocess_row(r) : r \in DOMAIN d} |-> d[raw_row(p)]]

(* ---- Timestamp order, max() and Timedelta.days ---- *)
TsLeq(a, b) == a.day < b.day \/ (a.day = b.day /\ a.tod <= b.tod)

TsMax(S) == CHOOSE m \in S : \A t \in S : TsLeq(t, m)

(* variant: difference of the calendar dates, the time of day ignored *)
TimedeltaDays_dates(hi, lo) == hi.day - lo.day

TimedeltaDays(hi, lo) ==
    hi.day - lo.day - (IF hi.tod < lo.tod THEN 1 ELSE 0)

(* ---- Metric extraction: perform_rfm_analysis, Recency/Frequency/Monetary ---- *)
NaT == [day |-> 0 - 1, tod |-> 0]

CustomerIds(d) == {r.customer_id : r \in DOMAIN d}

RowsOf(d, c) == {r \in DOMAIN d : r.customer_id = c}

latest_date(d) ==
    IF DOMAIN d = {} THEN NaT
    ELSE TsMax({r.order_purchase_timestamp : r \in DOMAIN d})

Recency(d, c) ==
    TimedeltaDays(latest_date(d),
                  TsMax({r.order_purchase_timestamp : r \in RowsOf(d, c)}))

(* variant: 'count' in place of 'nunique' *)
Frequency_rows(d, c) == SumOver(RowsOf(d, c), [r \in RowsOf(d, c) |-> d[r]])

Frequency(d, c) == Cardinality({r.order_id : r \in RowsOf(d, c)})

(* variant: the sum of price, as get_top_customers aggregates *)
Monetary_price(d, c) ==
    SumOver(RowsOf(d, c), [r \in RowsOf(d, c) |-> d[r] * r.price])

Monetary(d, c) ==
    SumOver(RowsOf(d, c), [r \in RowsOf(d, c) |-> d[r] * r.total_spent])

merge_metrics(d) ==
    [c \in CustomerIds(d) |->
        [Recency |-> Recency(d, c), Frequency |-> Frequency(d, c),
         Monetary |-> Monetary(d, c)]]

(* ---- pd.qcut(x, q, labels, duplicates='drop') ---- *)
q == 5

(* variant: ascending labels for Recency *)
R_labels_asc == <<1, 2, 3, 4, 5>>

R_labels == <<5, 4, 3, 2, 1>>

M_labels == <<1, 2, 3, 4, 5>>

(* i-th smallest value of the column x, i counted from 0 *)
OrderStat(x, i) ==
    CHOOSE v \in Range(x) :
        /\ Cardinality({c \in DOMAIN x : x[c] < v}) <= i
        /\ Cardinality({c \in DOMAIN x : x[c] <= v}) > i

(* q times the k/q quantile of x, linear interpolation between order statistics *)
QuantileEdge(x, k) ==
    LET pos == (Cardinality(DOMAIN x) - 1) * k
        lo  == pos \div q
        fr  == pos % q
    IN  IF fr = 0 THEN q * OrderStat(x, lo)
        ELSE q * OrderStat(x, lo) + fr * (OrderStat(x, lo + 1) - OrderStat(x, lo))

(* the quantile edges after algos.unique; every quantile of an empty column is NaN *)
unique_bins(x) ==
    IF DOMAIN x = {} THEN {"nan"}
    ELSE {QuantileEdge(x, k) : k \in 0..q}

(* searchsorted(side='left') over the edges, include_lowest=True *)
qcut_id(x, c) ==
    LET b == unique_bins(x)
    IN  IF \A e \in b : q * x[c] <= e THEN 1
        ELSE Cardinality({e \in b : e < q * x[c]})

qcut(x, labels) ==
    IF Len(labels) # Cardinality(unique_bins(x)) - 1
    THEN [exc |-> "ValueError", codes |-> EmptyTable]
    ELSE [exc |-> "none", codes |-> [c \in DOMAIN x |-> labels[qcut_id(x, c)]]]

(* ---- pd.cut(x, bins, labels), right-closed intervals ---- *)
(* bins = [0, 1, 2, 3, 4, inf]: the finite edges; no value lies above inf *)
bins == <<0, 1, 2, 3, 4>>

labels == <<1, 2, 3, 4, 5>>

(* variant: right=False, left-closed intervals *)
cut_left(v) ==
    LET id == Cardinality({i \in DOMAIN bins : bins[i] <= v})
    IN  IF id = 0 THEN 0 ELSE labels[id]

(* 0 stands for NaN: the value lies in no interval *)
cut(v) ==
    LET id == Cardinality({i \in DOMAIN bins : bins[i] < v})
    IN  IF id = 0 THEN 0 ELSE labels[id]

(* ---- Score RFM and Total RFM Score ---- *)
(* variant: the M_Score term left out of the total *)
RfmScoreOf_noM(r, f, m) == r + f

RfmScoreOf(r, f, m) == r + f + m

score_rfm(t) ==
    LET R == qcut([c \in DOMAIN t |-> t[c].Recency], R_labels)
        M == qcut([c \in DOMAIN t |-> t[c].Monetary], M_labels)
    IN  IF R.exc # "none" THEN [exc |-> R.exc, rfm_df |-> EmptyTable]
        ELSE IF M.exc # "none" THEN [exc |-> M.exc, rfm_df |-> EmptyTable]
        ELSE IF \E c \in DOMAIN t : cut(t[c].Frequency) = 0
             THEN [exc |-> "ValueError", rfm_df |-> EmptyTable]
        ELSE [exc |-> "none",
              rfm_df |-> [c \in DOMAIN t |->
                  [Recency |-> t[c].Recency, Frequency |-> t[c].Frequency,
                   Monetary |-> t[c].Monetary,
                   R_Score |-> R.codes[c], F_Score |-> cut(t[c].Frequency),
                   M_Score |-> M.codes[c],
                   RFM_Score |-> RfmScoreOf(R.codes[c], cut(t[c].Frequency),
                                            M.codes[c])]]]

(* ---- Segment Customers ---- *)
(* variant: strict comparison at the Champions threshold *)
segment_customer_strict(row) ==
    IF row.RFM_Score > 12 THEN "Champions"
    ELSE IF 9 <= row.RFM_Score /\ row.RFM_Score < 12 THEN "Loyal Customers"
    ELSE IF 6 <= row.RFM_Score /\ row.RFM_Score < 9 THEN "Potential Loyalists"
    ELSE IF 3 <= row.RFM_Score /\ row.RFM_Score < 6 THEN "At Risk"
    ELSE "Lost Customers"

segment_customer(row) ==
    IF row.RFM_Score >= 12 THEN "Champions"
    ELSE IF 9 <= row.RFM_Score /\ row.RFM_Score < 12 THEN "Loyal Customers"
    ELSE IF 6 <= row.RFM_Score /\ row.RFM_Score < 9 THEN "Potential Loyalists"
    ELSE IF 3 <= row.RFM_Score /\ row.RFM_Score < 6 THEN "At Risk"
    ELSE "Lost Customers"

apply_segment(t) ==
    [c \in DOMAIN t |-> t[c] @@ [Segment |-> segment_customer(t[c])]]

score_and_segment(t) ==
    LET s == score_rfm(t)
    IN  IF s.exc # "none" THEN s
        ELSE [exc |-> "none", rfm_df |-> apply_segment(s.rfm_df)]

perform_rfm_analysis(d) == score_and_segment(merge_metrics(d))

(* ---- the dashboard script: load, preprocess, run the RFM view ---- *)
Init ==
    /\ pc = "load"
    /\ df = EmptyBag
    /\ rfm_df = EmptyTable
    /\ exc = "none"

ReadRow ==
    /\ pc = "load"
    /\ BagCardinality(df) < MaxRows
    /\ \E r \in RawRows : df' = df (+) SetToBag({r})
    /\ UNCHANGED <<pc, rfm_df, exc>>

Preprocess ==
    /\ pc = "load"
    /\ df' = preprocess_data(df)
    /\ pc' = "ready"
    /\ UNCHANGED <<rfm_df, exc>>

PerformRfmAnalysis ==
    /\ pc = "ready"
    /\ LET res == perform_rfm_analysis(df)
       IN  /\ rfm_df' = res.rfm_df
           /\ exc' = res.exc
    /\ pc' = "done"
    /\ UNCHANGED df

Rerun ==
    /\ pc = "done"
    /\ pc' = "load"
    /\ df' = EmptyBag
    /\ rfm_df' = EmptyTable
    /\ exc' = "none"

Next == ReadRow \/ Preprocess \/ PerformRfmAnalysis \/ Rerun

Spec == Init /\ [][Next]_vars

(* ---- the Scorer on its own: any merged metric table ---- *)
MetricTables ==
    UNION {[1..n -> [Recency : 0..MaxRecency, Frequency : 1..MaxFrequency,
                     Monetary : 0..MaxMonetary]] : n \in 1..MaxScoreCust}

InitScore ==
    /\ pc = "merged"
    /\ df = EmptyBag
    /\ rfm_df \in MetricTables
    /\ exc = "none"

ScoreTable ==
    /\ pc = "merged"
    /\ LET res == score_and_segment(rfm_df)
       IN  /\ rfm_df' = res.rfm_df
           /\ exc' = res.exc
    /\ pc' = "done"
    /\ UNCHANGED df

NextScore == ScoreTable

SpecScore == InitScore /\ [][NextScore]_vars

(* ---- the Segment Classifier on its own: any integer RFM_Score ---- *)
ScoredTables ==
    UNION {[1..n -> [RFM_Score : 0..MaxRfmScore]] : n \in 1..MaxSegCust}

InitSegment ==
    /\ pc = "scored"
    /\ df = EmptyBag
    /\ rfm_df \in ScoredTables
    /\ exc = "none"

ApplySegment ==
    /\ pc = "scored"
    /\ rfm_df' = apply_segment(rfm_df)
    /\ pc' = "done"
    /\ UNCHANGED <<df, exc>>

NextSegment == ApplySegment

SpecSegment == InitSegment /\ [][NextSegment]_vars

(***************************************************************************)
(* Properties                                                              *)
(***************************************************************************)
Returned == pc = "done" /\ exc = "none"

(* C1: on every non-empty order table on which perform_rfm_analysis        *)
(* returns, every row has R_Score, F_Score and M_Score in 1..5 and         *)
(* RFM_Score equal to their sum, hence between 3 and 15.                   *)
C1_ScoresInRange ==
    (Returned /\ df # EmptyBag) =>
        \A c \in DOMAIN rfm_df :
            /\ rfm_df[c].R_Score \in 1..5
            /\ rfm_df[c].F_Score \in 1..5
            /\ rfm_df[c].M_Score \in 1..5
            /\ rfm_df[c].RFM_Score =
                 rfm_df[c].R_Score + rfm_df[c].F_Score + rfm_df[c].M_Score
            /\ 3 <= rfm_df[c].RFM_Score
            /\ rfm_df[c].RFM_Score <= 15

C1_Witness ==
    /\ Returned
    /\ df # EmptyBag
    /\ \E c \in DOMAIN rfm_df : rfm_df[c].RFM_Score > 3 /\ rfm_df[c].M_Score = 5

(* C2: the segment is a total function of RFM_Score alone that follows the *)
(* threshold table, and it is monotonic in the score under the order       *)
(* Lost Customers < At Risk < Potential Loyalists < Loyal Customers <      *)
(* Champions.                                                              *)
C2_SegmentThresholds ==
    pc = "done" =>
        LET rank == [Segment \in {"Lost Customers", "At Risk", "Potential Loyalists",
                                  "Loyal Customers", "Champions"} |->
                        CASE Segment = "Lost Customers" -> 0
                          [] Segment = "At Risk" -> 1
                          [] Segment = "Potential Loyalists" -> 2
                          [] Segment = "Loyal Customers" -> 3
                          [] Segment = "Champions" -> 4]
        IN  /\ \A c \in DOMAIN rfm_df :
                 LET s == rfm_df[c].RFM_Score
                     g == rfm_df[c].Segment
                 IN  /\ g \in DOMAIN rank
                     /\ (s >= 12) = (g = "Champions")
                     /\ (s \in 9..11) = (g = "Loyal Customers")
                     /\ (s \in 6..8) = (g = "Potential Loyalists")
                     /\ (s \in 3..5) = (g = "At Risk")
                     /\ (s < 3) = (g = "Lost Customers")
            /\ \A a, b \in DOMAIN rfm_df :
                 rfm_df[a].RFM_Score <= rfm_df[b].RFM_Score =>
                     rank[rfm_df[a].Segment] <= rank[rfm_df[b].Segment]

C2_Witness ==
    /\ pc = "done"
    /\ \E a, b \in DOMAIN rfm_df :
         /\ rfm_df[a].RFM_Score = 2 /\ rfm_df[a].Segment = "Lost Customers"
         /\ rfm_df[b].RFM_Score = 12 /\ rfm_df[b].Segment = "Champions"

(* C3: on an order table with zero rows perform_rfm_analysis fails with    *)
(* EmptyInputError, not with a binning exception and not by returning.     *)
C3_EmptyInputError ==
    (pc = "done" /\ df = EmptyBag) => exc = "EmptyInputError"

(* C4: when Recency or Monetary has too few distinct values to form 5      *)
(* quantile buckets, perform_rfm_analysis does not raise: it returns a     *)
(* table in which every customer of the input has valid scores and a       *)
(* segment.                                                                *)
C4_DegenerateReturns ==
    (/\ pc = "done"
     /\ df # EmptyBag
     /\ \/ Cardinality({Recency(df, c) : c \in CustomerIds(df)}) < 5
        \/ Cardinality({Monetary(df, c) : c \in CustomerIds(df)}) < 5) =>
        /\ exc = "none"
        /\ DOMAIN rfm_df = CustomerIds(df)
        /\ \A c \in DOMAIN rfm_df :
             /\ rfm_df[c].R_Score \in 1..5
             /\ rfm_df[c].M_Score \in 1..5
             /\ rfm_df[c].RFM_Score \in 3..15

(* C5: Frequency of every customer in the output is the number of distinct *)
(* order identifiers among that customer's rows, not the number of rows,   *)
(* and is at least 1.                                                      *)
C5_FrequencyDistinctOrders ==
    Returned =>
        \A c \in DOMAIN rfm_df :
            /\ rfm_df[c].Frequency >= 1
            /\ \E ids \in SUBSET (1..MaxOrder) :
                 /\ Cardinality(ids) = rfm_df[c].Frequency
                 /\ \A r \in DOMAIN df :
                      r.customer_id = c => r.order_id \in ids
                 /\ \A o \in ids : \E r \in DOMAIN df :
                      r.customer_id = c /\ r.order_id = o

C5_Witness ==
    /\ Returned
    /\ \E c \in DOMAIN rfm_df :
         /\ rfm_df[c].Frequency = 1
         /\ \E r \in DOMAIN df : r.customer_id = c /\ df[r] = 2

(* C6: Recency of every customer in the output is the whole number of days *)
(* between the latest purchase timestamp of the input table and that       *)
(* customer's latest purchase timestamp; it is never negative and is 0 for *)
(* every customer whose latest order is at the table's latest timestamp.   *)
C6_RecencyWholeDays ==
    Returned =>
        LET ticks(t) == t.day * (MaxTod + 1) + t.tod
            all == {ticks(r.order_purchase_timestamp) : r \in DOMAIN df}
            latest == CHOOSE m \in all : \A t \in all : t <= m
        IN  \A c \in DOMAIN rfm_df :
              LET own == {ticks(r.order_purchase_timestamp) :
                            r \in {x \in DOMAIN df : x.customer_id = c}}
                  last == CHOOSE m \in own : \A t \in own : t <= m
                  rec == rfm_df[c].Recency
              IN  /\ rec >= 0
                  /\ rec * (MaxTod + 1) <= latest - last
                  /\ latest - last < (rec + 1) * (MaxTod + 1)
                  /\ (last = latest => rec = 0)

C6_Witness ==
    /\ Returned
    /\ \E a, b \in DOMAIN rfm_df :
         /\ rfm_df[a].Recency = 0
         /\ rfm_df[b].Recency = 1
         /\ \E r \in DOMAIN df :
              /\ r.customer_id = b
              /\ r.order_purchase_timestamp.tod > latest_date(df).tod

(* C7: F_Score depends on Frequency alone: 1, 2, 3, 4 map to 1, 2, 3, 4    *)
(* and every Frequency of 5 or more maps to 5.                             *)
C7_FScoreFixedBins ==
    Returned =>
        \A c \in DOMAIN rfm_df :
            /\ (rfm_df[c].Frequency \in 1..4 =>
                  rfm_df[c].F_Score = rfm_df[c].Frequency)
            /\ (rfm_df[c].Frequency >= 5 => rfm_df[c].F_Score = 5)

C7_Witness ==
    /\ Returned
    /\ \E a, b, c \in DOMAIN rfm_df :
         /\ rfm_df[a].Frequency = 6 /\ rfm_df[a].F_Score = 5
         /\ rfm_df[b].Frequency = 5 /\ rfm_df[b].F_Score = 5
         /\ rfm_df[c].Frequency = 4 /\ rfm_df[c].F_Score = 4

(* C9: the output has exactly one row per distinct customer_id of the      *)
(* input, and its Monetary is the sum of price + freight_value over all    *)
(* input rows of that customer.                                            *)
C9_MonetarySum ==
    Returned =>
        /\ DOMAIN rfm_df = {r.customer_id : r \in DOMAIN df}
        /\ \A c \in DOMAIN rfm_df :
             LET own == {r \in DOMAIN df : r.customer_id = c}
             IN  rfm_df[c].Monetary =
                   SumOver(own, [r \in own |-> df[r] * r.price])
                   + SumOver(own, [r \in own |-> df[r] * r.freight_value])

C9_Witness ==
    /\ Returned
    /\ Cardinality(DOMAIN rfm_df) = 2
    /\ \E c \in DOMAIN rfm_df :
         /\ rfm_df[c].Monetary = 3
         /\ \E r \in DOMAIN df :
              r.customer_id = c /\ r.freight_value = 1 /\ r.price = 0

(* C10: within one output table the quantile scores respect the metric     *)
(* order: lower or equal Recency never has a lower R_Score, lower or equal *)
(* Monetary never has a higher M_Score; with three customers, the one at   *)
(* recency 0 has a higher R_Score than the one with the oldest recency and *)
(* the one with the highest Monetary has the highest M_Score.              *)
C10_QuantileOrder ==
    Returned =>
        /\ \A a, b \in DOMAIN rfm_df :
             /\ rfm_df[a].Recency <= rfm_df[b].Recency =>
                  rfm_df[a].R_Score >= rfm_df[b].R_Score
             /\ rfm_df[a].Monetary <= rfm_df[b].Monetary =>
                  rfm_df[a].M_Score <= rfm_df[b].M_Score
        /\ Cardinality(DOMAIN rfm_df) = 3 =>
             \A a, b, c \in DOMAIN rfm_df :
                 (/\ rfm_df[a].Recency = 0
                  /\ rfm_df[a].Recency < rfm_df[b].Recency
                  /\ rfm_df[b].Recency < rfm_df[c].Recency
                  /\ rfm_df[b].Monetary > rfm_df[a].Monetary
                  /\ rfm_df[a].Monetary > rfm_df[c].Monetary) =>
                     /\ rfm_df[a].R_Score > rfm_df[c].R_Score
                     /\ rfm_df[b].M_Score >= rfm_df[a].M_Score
                     /\ rfm_df[b].M_Score >= rfm_df[c].M_Score
                     /\ rfm_df[a].R_Score = 5
                     /\ rfm_df[c].R_Score = 1
                     /\ rfm_df[b].M_Score = 5
                     /\ rfm_df[c].M_Score = 1

C10_Witness ==
    /\ Returned
    /\ \E a, b, c \in DOMAIN rfm_df :
         /\ rfm_df[a].Recency = 0 /\ rfm_df[b].Recency = 1 /\ rfm_df[c].Recency = 2
         /\ rfm_df[a].Frequency = 1 /\ rfm_df[b].Frequency = 5
         /\ rfm_df[c].Frequency = 2
         /\ rfm_df[a].Monetary = 1 /\ rfm_df[b].Monetary = 2 /\ rfm_df[c].Monetary = 0
         /\ rfm_df[a].R_Score > rfm_df[c].R_Score
         /\ rfm_df[b].M_Score = 5
         /\ rfm_df[b].F_Score = 5 /\ rfm_df[a].F_Score = 1

====
